---------------------------- MODULE Spec2Model ----------------------------
(***************************************************************************)
(* Model of pixi's `task` subcommand (src/cli/task.rs): the translation of *)
(* add/alias arguments into Task values, the add / alias / remove / list   *)
(* operations of `execute`, and the serialisation of a Task into a TOML    *)
(* item.                                                                   *)
(*                                                                         *)
(* Conventions.  A Rust String is a sequence of one-character strings, so  *)
(* that trimming, quoting and joining are computed.  Option<T> is a        *)
(* sequence of length at most one: None == <<>>, Some(x) == <<x>>.         *)
(* Task names, paths, env keys/values and environment names are opaque     *)
(* and are modelled by TLA+ strings.                                       *)
(***************************************************************************)
EXTENDS Integers, Sequences, FiniteSets, TLC

VARIABLES
    pc,            \* position of `execute`: "loaded", "probe", "remove", "save", "done"
    result,        \* what `execute` returns: "running", "Ok" or the error
    manifest,      \* project.manifest: (name, platform, feature) -> Task, in memory
    persisted,     \* the manifest file on disk: (name, platform, feature) -> Item
    features,      \* the features the manifest can resolve
    loaded,        \* the keys of the manifest as loaded by load_or_else_discover
    args,          \* the arguments of the operation being executed
    to_remove,     \* Operation::Remove: the Vec of (name, platform) candidates
    idx,           \* Operation::Remove: position of the running loop (1-based)
    log,           \* what the invocation did, in order: probes, warnings, calls, messages
    task,          \* the Task built from the arguments (Option)
    item,          \* the Item the serialiser produced for `task` (Option)
    environments,  \* project.environments(): sequence of [name, tasks, compatible]
    output         \* what Operation::List printed

vars == <<pc, result, manifest, persisted, features, loaded, args, to_remove,
          idx, log, task, item, environments, output>>

(***************************************************************************)
(* Bounds of the model.                                                    *)
(***************************************************************************)
MaxCmds == 2      \* most command tokens of one add request / CmdArgs::Multiple
MaxDeps == 1      \* longest depends_on list
MaxEnv == 1       \* most --env pairs of one add request
MaxNames == 3     \* most names of one remove request

(***************************************************************************)
(* Option, strings, sequences.                                             *)
(***************************************************************************)
None == <<>>
Some(x) == <<x>>
IsNone(o) == o = <<>>
IsSome(o) == o # <<>>

SeqsUpTo(S, n) == UNION {[1..k -> S] : k \in 0..n}
NonEmptySeqsUpTo(S, n) == UNION {[1..k -> S] : k \in 1..n}

Range(s) == {s[i] : i \in DOMAIN s}

IsWhitespace(c) == c = " "

RECURSIVE TrimStart(_)
TrimStart(s) ==
    IF s # <<>> /\ IsWhitespace(Head(s)) THEN TrimStart(Tail(s)) ELSE s

RECURSIVE TrimEnd(_)
TrimEnd(s) ==
    IF s # <<>> /\ IsWhitespace(s[Len(s)])
    THEN TrimEnd(SubSeq(s, 1, Len(s) - 1))
    ELSE s

\* str::trim
Trim(s) == TrimEnd(TrimStart(s))

\* crate::task::quote: the shell quoting applied to each token of a
\* multi-token command.
quote(s) ==
    IF s = <<>> THEN <<"\"", "\"">>
    ELSE IF \E i \in DOMAIN s : IsWhitespace(s[i]) THEN <<"\"">> \o s \o <<"\"">>
    ELSE s

\* Itertools::join
RECURSIVE Join(_, _)
Join(ss, sep) ==
    IF ss = <<>> THEN <<>>
    ELSE IF Len(ss) = 1 THEN ss[1]
    ELSE ss[1] \o sep \o Join(Tail(ss), sep)

(***************************************************************************)
(* The task data model (crate::task, used by task.rs).                     *)
(***************************************************************************)
TaskNameOrder == <<"a", "b", "c">>                 \* the names tried, in Ord order
TaskNames == Range(TaskNameOrder)
Platforms == {None, Some("linux-64")}          \* Option<Platform>
FeatureDefault == <<"Default">>
FeatureNamed(s) == <<"Named", s>>
FeatureArgs == {None, Some("test")}            \* Option<String> of --feature
Paths == {"src"}
EnvKeys == {"K"}
EnvVals == {"1", "2"}

Plain(s) == [variant |-> "Plain", command |-> s]
Alias(deps) == [variant |-> "Alias", depends_on |-> deps]
Single(s) == [kind |-> "Single", val |-> s]
Multiple(ss) == [kind |-> "Multiple", val |-> ss]
Execute(cmd, deps, ins, outs, cwd, env, clean) ==
    [variant |-> "Execute", cmd |-> cmd, depends_on |-> deps, inputs |-> ins,
     outputs |-> outs, cwd |-> cwd, env |-> env, clean_env |-> clean]

\* IndexMap::insert: replaces the value of a key that is present (keeping
\* its position), appends the pair otherwise.
IndexMapInsert(m, k, v) ==
    IF \E i \in DOMAIN m : m[i][1] = k
    THEN [i \in DOMAIN m |-> IF m[i][1] = k THEN <<k, v>> ELSE m[i]]
    ELSE Append(m, <<k, v>>)

RECURSIVE IndexMapFrom(_, _)
IndexMapFrom(m, pairs) ==
    IF pairs = <<>> THEN m
    ELSE IndexMapFrom(IndexMapInsert(m, Head(pairs)[1], Head(pairs)[2]), Tail(pairs))

(***************************************************************************)
(* Command line arguments as clap hands them over.                         *)
(***************************************************************************)
\* The command tokens tried: empty, blank, a word.
Strings == {<<>>, <<" ">>, <<"x">>}

\* AddArgs: commands is required with num_args = 1.., depends_on is None
\* or a non-empty list (num_args = 1..).
AddArgsSet ==
    [name : TaskNames,
     commands : NonEmptySeqsUpTo(Strings, MaxCmds),
     depends_on : {None} \cup {Some(d) : d \in NonEmptySeqsUpTo(TaskNames, MaxDeps)},
     platform : Platforms,
     feature : FeatureArgs,
     cwd : {None} \cup {Some(p) : p \in Paths},
     env : SeqsUpTo(EnvKeys \X EnvVals, MaxEnv),
     clean_env : BOOLEAN]

\* AliasArgs: depends_on is required with num_args = 1..
AliasArgsSet ==
    [alias : TaskNames,
     depends_on : NonEmptySeqsUpTo(TaskNames, MaxDeps),
     platform : Platforms]

(***************************************************************************)
(* The command translator.                                                 *)
(***************************************************************************)
\* The single string representation of the command tokens.
CmdArgsOf(commands) ==
    IF Len(commands) = 1
    THEN commands[1]
    ELSE Join([i \in DOMAIN commands |-> quote(commands[i])], <<" ">>)

\* The env of an Execute built from the --env pairs.
EnvOf(pairs) ==
    IF pairs = <<>> THEN None ELSE Some(IndexMapFrom(<<>>, pairs))

\* From<AddArgs> that makes an Alias of every blank command, whatever depends_on.
FromAddArgsAliasWhenBlank(value) ==
    LET depends_on == IF IsNone(value.depends_on) THEN <<>> ELSE value.depends_on[1]
        cmd_args == CmdArgsOf(value.commands)
    IN  IF Trim(cmd_args) = <<>>
        THEN Alias(depends_on)
        ELSE IF depends_on = <<>> /\ IsNone(value.cwd) /\ value.env = <<>>
        THEN Plain(cmd_args)
        ELSE Execute(Single(cmd_args), depends_on, None, None, value.cwd,
                     EnvOf(value.env), value.clean_env)

\* From<AddArgs> whose Plain test forgets the --env pairs.
FromAddArgsPlainIgnoresEnv(value) ==
    LET depends_on == IF IsNone(value.depends_on) THEN <<>> ELSE value.depends_on[1]
        cmd_args == CmdArgsOf(value.commands)
    IN  IF Trim(cmd_args) = <<>> /\ depends_on # <<>>
        THEN Alias(depends_on)
        ELSE IF depends_on = <<>> /\ IsNone(value.cwd)
        THEN Plain(cmd_args)
        ELSE Execute(Single(cmd_args), depends_on, None, None, value.cwd,
                     EnvOf(value.env), value.clean_env)

\* impl From<AddArgs> for Task
FromAddArgs(value) ==
    LET depends_on == IF IsNone(value.depends_on) THEN <<>> ELSE value.depends_on[1]
        cmd_args == CmdArgsOf(value.commands)
    IN  IF Trim(cmd_args) = <<>> /\ depends_on # <<>>
        THEN Alias(depends_on)
        ELSE IF depends_on = <<>> /\ IsNone(value.cwd) /\ value.env = <<>>
        THEN Plain(cmd_args)
        ELSE Execute(Single(cmd_args), depends_on, None, None, value.cwd,
                     EnvOf(value.env), value.clean_env)

\* impl From<AliasArgs> for Task
FromAliasArgs(value) == Alias(value.depends_on)

(***************************************************************************)
(* The task serialiser.                                                    *)
(***************************************************************************)
StringValue(s) == [type |-> "String", str |-> s]
ArrayValue(vs) == [type |-> "Array", elems |-> vs]
InlineTable(kvs) == [type |-> "InlineTable", entries |-> kvs]
ItemNone == [type |-> "None"]

\* InlineTable::insert: same replace-or-append as IndexMap.
TableInsert(t, k, v) == InlineTable(IndexMapInsert(t.entries, k, v))

TableKeys(t) == {t.entries[i][1] : i \in DOMAIN t.entries}

\* Array::from_iter over strings
ArrayOfStrings(ss) == ArrayValue([i \in DOMAIN ss |-> StringValue(ss[i])])

\* env.into_iter().collect() into an InlineTable
RECURSIVE CollectTable(_, _)
CollectTable(t, pairs) ==
    IF pairs = <<>> THEN t
    ELSE CollectTable(TableInsert(t, Head(pairs)[1], StringValue(Head(pairs)[2])),
                      Tail(pairs))

\* PathBuf::to_string_lossy().to_string(): paths here are valid UTF-8
ToStringLossy(p) == p

\* From<Task> for Item that writes depends-on even when the list is empty.
ToItemAlwaysDependsOn(value) ==
    CASE value.variant = "Plain" -> StringValue(value.command)
      [] value.variant = "Execute" ->
           LET t0 == InlineTable(<<>>)
               t1 == IF value.cmd.kind = "Single"
                     THEN TableInsert(t0, "cmd", StringValue(value.cmd.val))
                     ELSE TableInsert(t0, "cmd", ArrayOfStrings(value.cmd.val))
               t2 == TableInsert(t1, "depends-on", ArrayOfStrings(value.depends_on))
               t3 == IF IsSome(value.cwd)
                     THEN TableInsert(t2, "cwd", StringValue(ToStringLossy(value.cwd[1])))
                     ELSE t2
               t4 == IF IsSome(value.env)
                     THEN TableInsert(t3, "env", CollectTable(InlineTable(<<>>), value.env[1]))
                     ELSE t3
           IN  t4
      [] value.variant = "Alias" ->
           TableInsert(InlineTable(<<>>), "depends-on", ArrayOfStrings(value.depends_on))
      [] OTHER -> ItemNone

\* impl From<Task> for Item
ToItem(value) ==
    CASE value.variant = "Plain" -> StringValue(value.command)
      [] value.variant = "Execute" ->
           LET t0 == InlineTable(<<>>)
               t1 == IF value.cmd.kind = "Single"
                     THEN TableInsert(t0, "cmd", StringValue(value.cmd.val))
                     ELSE TableInsert(t0, "cmd", ArrayOfStrings(value.cmd.val))
               t2 == IF value.depends_on # <<>>
                     THEN TableInsert(t1, "depends-on", ArrayOfStrings(value.depends_on))
                     ELSE t1
               t3 == IF IsSome(value.cwd)
                     THEN TableInsert(t2, "cwd", StringValue(ToStringLossy(value.cwd[1])))
                     ELSE t2
               t4 == IF IsSome(value.env)
                     THEN TableInsert(t3, "env", CollectTable(InlineTable(<<>>), value.env[1]))
                     ELSE t3
           IN  t4
      [] value.variant = "Alias" ->
           TableInsert(InlineTable(<<>>), "depends-on", ArrayOfStrings(value.depends_on))
      [] OTHER -> ItemNone

(***************************************************************************)
(* The manifest mutator and persistence (crate::project, called by         *)
(* execute).                                                               *)
(***************************************************************************)
FeatureOf(f) == IF IsNone(f) THEN FeatureDefault ELSE FeatureNamed(f[1])
AllFeatures == {FeatureOf(f) : f \in FeatureArgs}
Keys == TaskNames \X Platforms \X AllFeatures

\* Manifest::tasks(platform, feature) is Err when the feature does not resolve
TasksIsOk(feats, feature) == feature \in feats

\* Manifest::tasks(platform, feature), when Ok: the names defined at that scope
tasks(m, platform, feature) ==
    {k[1] : k \in {q \in DOMAIN m : q[2] = platform /\ q[3] = feature}}

\* Manifest::add_task: insert or overwrite the entry of (name, platform, feature)
add_task(m, name, t, platform, feature) ==
    [k \in DOMAIN m \cup {<<name, platform, feature>>} |->
        IF k = <<name, platform, feature>> THEN t ELSE m[k]]

\* Manifest::remove_task is Err(TaskNotFound) when the exact scope has no entry
RemoveTaskIsOk(m, name, platform, feature) == <<name, platform, feature>> \in DOMAIN m

\* Manifest::remove_task, when Ok
remove_task(m, name, platform, feature) ==
    [k \in DOMAIN m \ {<<name, platform, feature>>} |-> m[k]]

\* Project::save, when Ok: every task is written as its Item
save(m) == [k \in DOMAIN m |-> ToItem(m[k])]

(***************************************************************************)
(* Operation::Add and Operation::Alias.                                    *)
(***************************************************************************)
RemoveVars == <<to_remove, idx>>
ListVars == <<environments, output>>

\* add_task(..)?; project.save()?; eprintln!("Added ..")
AddAndSave(op, name, t, platform, feature, valid, saved) ==
    /\ task' = Some(t)
    /\ IF ~valid
       THEN /\ result' = "ValidationError"
            /\ UNCHANGED <<manifest, persisted, features, log>>
       ELSE /\ manifest' = add_task(manifest, name, t, platform, feature)
            /\ features' = features \cup {feature}
            /\ IF saved
               THEN /\ persisted' = save(manifest')
                    /\ log' = Append(log, [ev |-> op, name |-> name])
                    /\ result' = "Ok"
               ELSE /\ result' = "ManifestWriteError"
                    /\ UNCHANGED <<persisted, log>>
    /\ pc' = "done"

Add ==
    /\ pc = "loaded"
    /\ \E value \in AddArgsSet, valid \in BOOLEAN, saved \in BOOLEAN :
          /\ args' = [op |-> "Add", value |-> value]
          /\ AddAndSave("Added task", value.name, FromAddArgs(value), value.platform,
                        FeatureOf(value.feature), valid, saved)
    /\ UNCHANGED <<loaded, item, RemoveVars, ListVars>>

AliasOp ==
    /\ pc = "loaded"
    /\ \E value \in AliasArgsSet, valid \in BOOLEAN, saved \in BOOLEAN :
          /\ args' = [op |-> "Alias", value |-> value]
          /\ AddAndSave("Added alias", value.alias, FromAliasArgs(value), value.platform,
                        FeatureDefault, valid, saved)
    /\ UNCHANGED <<loaded, item, RemoveVars, ListVars>>

(***************************************************************************)
(* Initial states: the project as load_or_else_discover returns it.        *)
(***************************************************************************)
ManifestsOver(ks, ts) == UNION {[d -> ts] : d \in SUBSET ks}

InitOperation ==
    /\ pc = "loaded"
    /\ result = "running"
    /\ args = None
    /\ to_remove = <<>>
    /\ idx = 1
    /\ log = <<>>
    /\ task = None
    /\ item = None
    /\ output = None

InitProject(ms, fs, envs) ==
    /\ manifest \in ms
    /\ persisted = save(manifest)
    /\ loaded = DOMAIN manifest
    /\ features \in {F \in fs :
                        FeatureDefault \in F /\ \A k \in DOMAIN manifest : k[3] \in F}
    /\ environments \in envs

InitAdd ==
    /\ InitOperation
    /\ InitProject({[k \in {<<"a", None, FeatureDefault>>} |-> Plain(<<"x">>)]},
                   {{FeatureDefault}}, {<<>>})

NextAdd == Add \/ AliasOp

SpecAdd == InitAdd /\ [][NextAdd]_vars

(***************************************************************************)
(* Operation::Remove.                                                      *)
(***************************************************************************)
RemoveArgsSet ==
    [names : SeqsUpTo(TaskNames, MaxNames),
     platform : Platforms,
     feature : FeatureArgs]

AddVars == <<task, item>>

\* let mut to_remove = Vec::new(); let feature = ..
RemoveBegin ==
    /\ pc = "loaded"
    /\ \E a \in RemoveArgsSet : args' = [op |-> "Remove", value |-> a]
    /\ to_remove' = <<>>
    /\ idx' = 1
    /\ pc' = "probe"
    /\ UNCHANGED <<result, manifest, persisted, features, loaded, log, AddVars, ListVars>>

\* The message of the warning for a missing task: one per branch of the probe
MissingWarning(platform) ==
    IF IsSome(platform) THEN "does not exist on platform"
    ELSE "does not exist for the feature"

\* RemoveProbe without the `continue` after the warning: the missing name is
\* pushed onto to_remove as well.
RemoveProbeNoContinue ==
    /\ pc = "probe"
    /\ idx <= Len(args.value.names)
    /\ LET name == args.value.names[idx]
           platform == args.value.platform
           feature == FeatureOf(args.value.feature)
           probe == [ev |-> "probe", pos |-> idx, name |-> name, text |-> ""]
       IN  \/ /\ ~TasksIsOk(features, feature)
              /\ log' = Append(log, probe)
              /\ result' = "GetFeatureError"
              /\ pc' = "done"
              /\ UNCHANGED <<to_remove, idx>>
           \/ /\ TasksIsOk(features, feature)
              /\ name \notin tasks(manifest, platform, feature)
              /\ log' = log \o <<probe, [ev |-> "warn", pos |-> idx, name |-> name,
                                         text |-> MissingWarning(platform)]>>
              /\ to_remove' = Append(to_remove, <<name, platform>>)
              /\ idx' = idx + 1
              /\ UNCHANGED <<result, pc>>
           \/ /\ TasksIsOk(features, feature)
              /\ name \in tasks(manifest, platform, feature)
              /\ log' = Append(log, probe)
              /\ to_remove' = Append(to_remove, <<name, platform>>)
              /\ idx' = idx + 1
              /\ UNCHANGED <<result, pc>>
    /\ UNCHANGED <<manifest, persisted, features, loaded, args, AddVars, ListVars>>

\* One iteration of `for name in args.names.iter()`
RemoveProbe ==
    /\ pc = "probe"
    /\ idx <= Len(args.value.names)
    /\ LET name == args.value.names[idx]
           platform == args.value.platform
           feature == FeatureOf(args.value.feature)
           probe == [ev |-> "probe", pos |-> idx, name |-> name, text |-> ""]
       IN  \/ /\ ~TasksIsOk(features, feature)
              /\ log' = Append(log, probe)
              /\ result' = "GetFeatureError"
              /\ pc' = "done"
              /\ UNCHANGED <<to_remove, idx>>
           \/ /\ TasksIsOk(features, feature)
              /\ name \notin tasks(manifest, platform, feature)
              /\ log' = log \o <<probe, [ev |-> "warn", pos |-> idx, name |-> name,
                                         text |-> MissingWarning(platform)]>>
              /\ idx' = idx + 1
              /\ UNCHANGED <<to_remove, result, pc>>
           \/ /\ TasksIsOk(features, feature)
              /\ name \in tasks(manifest, platform, feature)
              /\ log' = Append(log, probe)
              /\ to_remove' = Append(to_remove, <<name, platform>>)
              /\ idx' = idx + 1
              /\ UNCHANGED <<result, pc>>
    /\ UNCHANGED <<manifest, persisted, features, loaded, args, AddVars, ListVars>>

\* The probe loop is exhausted: `for (name, platform) in to_remove` starts
RemoveProbeEnd ==
    /\ pc = "probe"
    /\ idx > Len(args.value.names)
    /\ idx' = 1
    /\ pc' = "remove"
    /\ UNCHANGED <<result, manifest, persisted, features, loaded, args, to_remove, log,
                   AddVars, ListVars>>

\* RemoveTask that goes on to the next candidate without saving.
RemoveTaskWithoutSave ==
    /\ pc = "remove"
    /\ idx <= Len(to_remove)
    /\ LET name == to_remove[idx][1]
           platform == to_remove[idx][2]
           feature == FeatureOf(args.value.feature)
           ok == RemoveTaskIsOk(manifest, name, platform, feature)
       IN  /\ log' = Append(log, [ev |-> "remove_task", pos |-> idx, name |-> name,
                                  text |-> IF ok THEN "Ok" ELSE "TaskNotFound"])
           /\ IF ok
              THEN /\ manifest' = remove_task(manifest, name, platform, feature)
                   /\ idx' = idx + 1
                   /\ UNCHANGED <<result, pc>>
              ELSE /\ result' = "TaskNotFound"
                   /\ pc' = "done"
                   /\ UNCHANGED <<manifest, idx>>
    /\ UNCHANGED <<persisted, features, loaded, args, to_remove, AddVars, ListVars>>

\* project.manifest.remove_task(name.clone(), platform, &feature)?
RemoveTask ==
    /\ pc = "remove"
    /\ idx <= Len(to_remove)
    /\ LET name == to_remove[idx][1]
           platform == to_remove[idx][2]
           feature == FeatureOf(args.value.feature)
           ok == RemoveTaskIsOk(manifest, name, platform, feature)
       IN  /\ log' = Append(log, [ev |-> "remove_task", pos |-> idx, name |-> name,
                                  text |-> IF ok THEN "Ok" ELSE "TaskNotFound"])
           /\ IF ok
              THEN /\ manifest' = remove_task(manifest, name, platform, feature)
                   /\ pc' = "save"
                   /\ UNCHANGED result
              ELSE /\ result' = "TaskNotFound"
                   /\ pc' = "done"
                   /\ UNCHANGED manifest
    /\ UNCHANGED <<persisted, features, loaded, args, to_remove, idx, AddVars, ListVars>>

\* project.save()?; eprintln!("Removed task ..")
RemoveSave ==
    /\ pc = "save"
    /\ LET name == to_remove[idx][1]
       IN  \E saved \in BOOLEAN :
             IF saved
             THEN /\ persisted' = save(manifest)
                  /\ log' = log \o <<[ev |-> "save", pos |-> idx, name |-> name, text |-> "Ok"],
                                     [ev |-> "removed", pos |-> idx, name |-> name,
                                      text |-> "Removed task"]>>
                  /\ idx' = idx + 1
                  /\ pc' = "remove"
                  /\ UNCHANGED result
             ELSE /\ log' = Append(log, [ev |-> "save", pos |-> idx, name |-> name,
                                         text |-> "ManifestWriteError"])
                  /\ result' = "ManifestWriteError"
                  /\ pc' = "done"
                  /\ UNCHANGED <<persisted, idx>>
    /\ UNCHANGED <<manifest, features, loaded, args, to_remove, AddVars, ListVars>>

\* The removal loop is exhausted: warn_on_discovered_from_env; Ok(())
RemoveEnd ==
    /\ pc = "remove"
    /\ idx > Len(to_remove)
    /\ result' = "Ok"
    /\ pc' = "done"
    /\ UNCHANGED <<manifest, persisted, features, loaded, args, to_remove, idx, log,
                   AddVars, ListVars>>

\* The entries a loaded manifest may hold: every name at both platforms of the
\* default feature, and "a" for all platforms of the named feature.
RemoveInitKeys == {k \in Keys : k[3] = FeatureDefault \/ (k[1] = "a" /\ IsNone(k[2]))}

InitRemove ==
    /\ InitOperation
    /\ InitProject(ManifestsOver(RemoveInitKeys, {Plain(<<"x">>)}), SUBSET AllFeatures, {<<>>})

NextRemove ==
    \/ RemoveBegin
    \/ RemoveProbe
    \/ RemoveProbeEnd
    \/ RemoveTask
    \/ RemoveSave
    \/ RemoveEnd

SpecRemove == InitRemove /\ [][NextRemove]_vars

(***************************************************************************)
(* Operation::List.                                                        *)
(***************************************************************************)
EnvNameOrder == <<"default", "cuda", "lint">>  \* the environments of the project
EnvNames == Range(EnvNameOrder)
UnknownEnvNames == {"nope"}                    \* well-formed, not in the project
InvalidEnvNames == {"Bad Name"}                \* rejected by EnvironmentName::from_str

EnvironmentSeqs ==
    {[i \in DOMAIN EnvNameOrder |->
         [name |-> EnvNameOrder[i], tasks |-> ts[i], compatible |-> cs[i]]] :
       ts \in [DOMAIN EnvNameOrder -> SUBSET TaskNames],
       cs \in [DOMAIN EnvNameOrder -> BOOLEAN]}

ListArgsSet ==
    [summary : BOOLEAN,
     machine_readable : BOOLEAN,
     environment : {None} \cup {Some(n) : n \in EnvNames \cup UnknownEnvNames \cup InvalidEnvNames}]

\* EnvironmentName::from_str(n).is_ok()
EnvironmentNameIsOk(n) == n \notin InvalidEnvNames

\* Project::environment(&n): Some(env) or None
environment(envs, n) ==
    IF \E i \in DOMAIN envs : envs[i].name = n
    THEN Some(envs[CHOOSE i \in DOMAIN envs : envs[i].name = n])
    ELSE None

\* Environment::get_filtered_tasks
get_filtered_tasks(env) == env.tasks

\* verify_current_platform_has_required_virtual_packages(env).is_ok()
verify_current_platform_has_required_virtual_packages(env) == env.compatible

\* .iter().sorted() over task names
Sorted(S) == SelectSeq(TaskNameOrder, LAMBDA n : n \in S)

\* print_tasks_per_env: one line per environment handed over
print_tasks_per_env(envs) ==
    [i \in DOMAIN envs |->
        [env |-> envs[i].name, names |-> Sorted(get_filtered_tasks(envs[i]))]]

\* The environments Operation::List hands to print_tasks_per_env
SummaryEnvironments(envs, explicit_environment) == envs

\* let available_tasks: HashSet<TaskName> = ..
AvailableTasks(envs, explicit_environment) ==
    IF IsSome(explicit_environment)
    THEN get_filtered_tasks(explicit_environment[1])
    ELSE UNION {get_filtered_tasks(envs[i]) :
                  i \in {j \in DOMAIN envs :
                           verify_current_platform_has_required_virtual_packages(envs[j])}}

\* The four output branches of Operation::List
ListOutput(a, envs, explicit_environment) ==
    LET available_tasks == AvailableTasks(envs, explicit_environment)
    IN  IF available_tasks = {}
        THEN [kind |-> "NoTasksFound", sep |-> "", names |-> <<>>, lines |-> <<>>]
        ELSE IF a.summary
        THEN [kind |-> "Summary", sep |-> ", ", names |-> <<>>,
              lines |-> print_tasks_per_env(SummaryEnvironments(envs, explicit_environment))]
        ELSE IF a.machine_readable
        THEN [kind |-> "MachineReadable", sep |-> " ", names |-> Sorted(available_tasks),
              lines |-> <<>>]
        ELSE [kind |-> "Plain", sep |-> ", ", names |-> Sorted(available_tasks),
              lines |-> <<>>]

List ==
    /\ pc = "loaded"
    /\ \E a \in ListArgsSet :
          /\ args' = [op |-> "List", value |-> a]
          /\ \/ /\ IsSome(a.environment)
                /\ ~EnvironmentNameIsOk(a.environment[1])
                /\ result' = "ParseEnvironmentNameError"
                /\ UNCHANGED output
             \/ /\ IsSome(a.environment)
                /\ EnvironmentNameIsOk(a.environment[1])
                /\ IsNone(environment(environments, a.environment[1]))
                /\ result' = "UnknownEnvironment"
                /\ UNCHANGED output
             \/ /\ IsSome(a.environment) =>
                      /\ EnvironmentNameIsOk(a.environment[1])
                      /\ IsSome(environment(environments, a.environment[1]))
                /\ LET explicit_environment ==
                           IF IsSome(a.environment)
                           THEN environment(environments, a.environment[1])
                           ELSE None
                   IN  output' = Some(ListOutput(a, environments, explicit_environment))
                /\ result' = "Ok"
    /\ pc' = "done"
    /\ UNCHANGED <<manifest, persisted, features, loaded, log, environments, to_remove, idx,
                   AddVars>>

InitList ==
    /\ InitOperation
    /\ InitProject({<<>>}, {{FeatureDefault}}, EnvironmentSeqs)

NextList == List

SpecList == InitList /\ [][NextList]_vars

(***************************************************************************)
(* The serialiser applied to every Task value.                             *)
(***************************************************************************)
EnvMaps == {IndexMapFrom(<<>>, p) : p \in SeqsUpTo(EnvKeys \X EnvVals, MaxEnv)}
OptGlobs == {None, Some(<<"*.rs">>)}

TaskUniverse ==
    {Plain(s) : s \in Strings}
    \cup {Alias(d) : d \in SeqsUpTo(TaskNames, MaxDeps)}
    \cup {Execute(c, d, i, o, w, e, ce) :
            c \in {Single(s) : s \in Strings}
                  \cup {Multiple(ss) : ss \in SeqsUpTo(Strings, MaxCmds)},
            d \in SeqsUpTo(TaskNames, MaxDeps),
            i \in OptGlobs,
            o \in OptGlobs,
            w \in {None} \cup {Some(q) : q \in Paths},
            e \in {None} \cup {Some(m) : m \in EnvMaps},
            ce \in BOOLEAN}

\* Item::from(task)
Serialize ==
    /\ pc = "loaded"
    /\ IsSome(task)
    /\ item' = Some(ToItem(task[1]))
    /\ pc' = "done"
    /\ UNCHANGED <<result, manifest, persisted, features, loaded, args, log, task,
                   RemoveVars, ListVars>>

InitSerialize ==
    /\ pc = "loaded"
    /\ result = "running"
    /\ args = None
    /\ to_remove = <<>>
    /\ idx = 1
    /\ log = <<>>
    /\ task \in {Some(t) : t \in TaskUniverse}
    /\ item = None
    /\ output = None
    /\ InitProject({<<>>}, {{FeatureDefault}}, {<<>>})

NextSerialize == Serialize

SpecSerialize == InitSerialize /\ [][NextSerialize]_vars

(***************************************************************************)
(* Claims about Operation::Remove (checked under SpecRemove).              *)
(***************************************************************************)
\* The scope of the running remove request
RequestKey(name) == <<name, args.value.platform, FeatureOf(args.value.feature)>>
Requested == args.value.names
\* The positions of the log holding an event of the given kind
Events(kind) == {i \in DOMAIN log : log[i].ev = kind}
\* The requested names that have an entry at the requested scope when the batch starts
Surviving == SelectSeq(Requested, LAMBDA n : RequestKey(n) \in loaded)
IsRemoveRun == IsSome(args) /\ args.op = "Remove"

\* C1: in a remove batch every existence probe and every warning happens
\* before the first remove_task call (which is made only once all k names were
\* probed); remove_task is then called for the surviving names in request
\* order, and each remove_task is directly followed by its own successful save
\* before the next remove_task starts.
C1_ProbeAllThenRemoveAndSaveEach ==
    IsRemoveRun =>
      /\ \A i \in Events("probe") \cup Events("warn"), j \in Events("remove_task") : i < j
      /\ Events("remove_task") # {} =>
            /\ Cardinality(Events("probe")) = Len(Requested)
            /\ \A p \in DOMAIN Requested :
                  \E i \in Events("probe") : log[i].pos = p /\ log[i].name = Requested[p]
      /\ \A i, j \in Events("probe") : i < j => log[i].pos < log[j].pos
      /\ LET calls == SelectSeq(log, LAMBDA e : e.ev = "remove_task")
         IN  /\ Len(calls) <= Len(Surviving)
             /\ \A c \in DOMAIN calls : calls[c].name = Surviving[c] /\ calls[c].pos = c
      /\ \A i, j \in Events("remove_task") :
            i < j => /\ log[i].text = "Ok"
                     /\ log[i + 1].ev = "save"
                     /\ log[i + 1].text = "Ok"
                     /\ log[i + 1].pos = log[i].pos
                     /\ i + 1 < j
      /\ (pc = "done" /\ result = "Ok") =>
            /\ Cardinality(Events("remove_task")) = Len(Surviving)
            /\ Cardinality(Events("save")) = Len(Surviving)

\* A batch that warned about a later name before removing two earlier ones
C1_Witness ==
    /\ IsRemoveRun
    /\ pc = "done"
    /\ result = "Ok"
    /\ Len(to_remove) = 2
    /\ \E w \in Events("warn") : log[w].pos = 3

\* C2: a TaskNotFound for one requested name is only a warning: the command
\* never fails with it, and when nothing else fails every requested name that
\* exists in the requested scope is removed from the persisted manifest.
C2_TaskNotFoundIsOnlyAWarning ==
    IsRemoveRun =>
      /\ result # "TaskNotFound"
      /\ (pc = "done" /\ result \notin {"ManifestWriteError", "GetFeatureError"}) =>
            \A p \in DOMAIN Requested :
               RequestKey(Requested[p]) \in loaded =>
                  RequestKey(Requested[p]) \notin DOMAIN persisted

\* The number of warnings emitted for the request at position p
Warnings(p) == Cardinality({i \in Events("warn") : log[i].pos = p})
MissingRequests == {p \in DOMAIN Requested : RequestKey(Requested[p]) \notin loaded}
\* What C3 says of a missing name apart from its warning: remove_task is never
\* called for it and neither manifest gains or loses anything at its key; a
\* batch of missing names only performs no mutation and no save.
C3_Frame ==
    /\ \A p \in MissingRequests :
          /\ \A i \in Events("remove_task") : log[i].name # Requested[p]
          /\ RequestKey(Requested[p]) \notin DOMAIN manifest
          /\ RequestKey(Requested[p]) \notin DOMAIN persisted
    /\ MissingRequests = DOMAIN Requested =>
          /\ DOMAIN manifest = loaded
          /\ DOMAIN persisted = loaded
          /\ Events("remove_task") = {}
          /\ Events("save") = {}

\* C3 (as written): when the batch is over, every request of a name that had
\* no entry at the exact scope got exactly one warning, remove_task was never
\* called for it, and the manifests are unchanged with respect to it.
C3_ExactlyOneWarningPerMissingName ==
    IsRemoveRun =>
      /\ C3_Frame
      /\ pc = "done" => \A p \in MissingRequests : Warnings(p) = 1

\* C3 (amended): as C3, the warning being emitted exactly once whenever the
\* scope lookup (manifest.tasks) succeeds; when the lookup fails the batch
\* stops in the probe phase with an error and without any warning.
C3_OneWarningPerMissingNameUnlessLookupFails ==
    IsRemoveRun =>
      /\ C3_Frame
      /\ \A p \in MissingRequests :
            /\ Warnings(p) <= 1
            /\ (pc \in {"remove", "save"} \/ (pc = "done" /\ result # "GetFeatureError"))
                  => Warnings(p) = 1
            /\ (pc = "probe" /\ idx > p) => Warnings(p) = 1
      /\ result = "GetFeatureError" =>
            /\ Events("warn") = {}
            /\ Events("remove_task") = {}
            /\ Events("save") = {}
            /\ DOMAIN manifest = loaded
            /\ DOMAIN persisted = loaded

\* A finished batch that warned twice about the same missing name and removed another
C3_Witness ==
    /\ IsRemoveRun
    /\ pc = "done"
    /\ result = "Ok"
    /\ Len(Requested) = 3
    /\ Cardinality(MissingRequests) = 2
    /\ Requested[1] = Requested[3]
    /\ 1 \in MissingRequests
    /\ Len(to_remove) = 1
    /\ DOMAIN persisted # loaded

\* C4: when remove_task or save fails at the i-th candidate the command stops
\* with that error, the persisted manifest holds exactly the removals of the
\* candidates 1..i-1 and still contains the candidates i..m, and no later
\* candidate is removed.
C4_NoRollbackKeepsLaterCandidates ==
    (IsRemoveRun /\ pc = "done" /\ result \in {"TaskNotFound", "ManifestWriteError"}) =>
      /\ DOMAIN persisted = loaded \ {RequestKey(to_remove[k][1]) : k \in 1..(idx - 1)}
      /\ \A k \in idx..Len(to_remove) : RequestKey(to_remove[k][1]) \in DOMAIN persisted
      /\ \A i \in Events("remove_task") : log[i].pos <= idx

(***************************************************************************)
(* Claims about the command translator (checked under SpecAdd).            *)
(***************************************************************************)
IsAddRun == IsSome(args) /\ args.op = "Add" /\ pc = "done"
\* The joined command text and the dependency list of the running add request
AddCommand == CmdArgsOf(args.value.commands)
AddDependsOn == IF IsNone(args.value.depends_on) THEN <<>> ELSE args.value.depends_on[1]
\* Empty or whitespace only
IsBlank(s) == \A i \in DOMAIN s : s[i] = " "
\* The value the last --env pair of key k gives it
LastEnvValue(pairs, k) ==
    pairs[CHOOSE i \in DOMAIN pairs :
             pairs[i][1] = k /\ \A j \in DOMAIN pairs : pairs[j][1] = k => j <= i][2]

\* C5: the Task of an add request is an Alias of depends_on when the command
\* is blank and depends_on is not empty; otherwise Plain(command) when
\* depends_on is empty, cwd is absent and there are no env pairs; otherwise an
\* Execute with cmd = Single(command), the given depends_on, cwd, env and
\* clean_env, and no inputs or outputs.
C5_VariantRule ==
    IsAddRun =>
      LET v == args.value
          t == task[1]
      IN  IF IsBlank(AddCommand) /\ AddDependsOn # <<>>
          THEN t.variant = "Alias" /\ t.depends_on = AddDependsOn
          ELSE IF AddDependsOn = <<>> /\ IsNone(v.cwd) /\ v.env = <<>>
          THEN t.variant = "Plain" /\ t.command = AddCommand
          ELSE /\ t.variant = "Execute"
               /\ t.cmd = Single(AddCommand)
               /\ t.depends_on = AddDependsOn
               /\ t.cwd = v.cwd
               /\ t.clean_env = v.clean_env
               /\ IsNone(t.inputs) /\ IsNone(t.outputs)
               /\ IsSome(t.env) <=> v.env # <<>>
               /\ v.env # <<>> =>
                     /\ {kv[1] : kv \in Range(t.env[1])} = {kv[1] : kv \in Range(v.env)}
                     /\ \A kv \in Range(t.env[1]) : kv[2] = LastEnvValue(v.env, kv[1])

\* An add request of two tokens with env pairs and nothing else, stored as an Execute
C5_Witness ==
    /\ IsAddRun
    /\ result = "Ok"
    /\ Len(args.value.commands) = 2
    /\ AddDependsOn = <<>>
    /\ IsNone(args.value.cwd)
    /\ args.value.env # <<>>
    /\ task[1].variant = "Execute"

C10_CleanEnvIsRecorded ==
    (IsAddRun /\ result = "Ok" /\ args.value.clean_env /\ ~IsBlank(AddCommand)) =>
       /\ task[1].variant = "Execute"
       /\ task[1].clean_env

(***************************************************************************)
(* Claims about Operation::List (checked under SpecList).                  *)
(***************************************************************************)
IsListRun == IsSome(args) /\ args.op = "List" /\ pc = "done"
\* The task names the output shows
Reported ==
    Range(output[1].names) \cup UNION {Range(output[1].lines[i].names) :
                                         i \in DOMAIN output[1].lines}
\* The environments that contribute to the available set of the running request
Contributing ==
    IF IsSome(args.value.environment)
    THEN {i \in DOMAIN environments : environments[i].name = args.value.environment[1]}
    ELSE {i \in DOMAIN environments : environments[i].compatible}

\* C7: without an explicit environment the list operation never fails and
\* reports exactly the union of the filtered tasks of the compatible
\* environments; with an explicit environment it reports exactly that
\* environment's filtered tasks.
C7_ReportsTasksOfContributingEnvironments ==
    IsListRun =>
      /\ IsNone(args.value.environment) => result = "Ok"
      /\ result = "Ok" => Reported = UNION {environments[i].tasks : i \in Contributing}

\* C9: the summary prints a line only for environments that contributed to
\* the available set.
C9_SummaryOnlyContributingEnvironments ==
    (IsListRun /\ result = "Ok" /\ output[1].kind = "Summary") =>
       \A l \in DOMAIN output[1].lines :
          \E i \in Contributing : environments[i].name = output[1].lines[l].env

(***************************************************************************)
(* Claims about the serialiser (checked under SpecSerialize).              *)
(***************************************************************************)
\* C8: Plain(s) is serialised as the bare string s; an Execute as an inline
\* table that has cmd, has depends-on iff depends_on is not empty, cwd iff cwd
\* is present, env iff env is present, and no other key (no inputs, outputs or
\* clean_env); an Alias as an inline table whose only key is depends-on.
C8_SerializedShape ==
    IsSome(item) =>
      LET t == task[1]
          it == item[1]
      IN  CASE t.variant = "Plain" -> it = StringValue(t.command)
            [] t.variant = "Execute" ->
                 /\ it.type = "InlineTable"
                 /\ "cmd" \in TableKeys(it)
                 /\ "depends-on" \in TableKeys(it) <=> t.depends_on # <<>>
                 /\ "cwd" \in TableKeys(it) <=> IsSome(t.cwd)
                 /\ "env" \in TableKeys(it) <=> IsSome(t.env)
                 /\ TableKeys(it) \subseteq {"cmd", "depends-on", "cwd", "env"}
            [] t.variant = "Alias" ->
                 /\ it.type = "InlineTable"
                 /\ TableKeys(it) = {"depends-on"}

\* An Execute with inputs, outputs, clean_env and cwd but no dependencies and no env
C8_Witness ==
    /\ IsSome(item)
    /\ task[1].variant = "Execute"
    /\ task[1].depends_on = <<>>
    /\ IsSome(task[1].cwd)
    /\ IsNone(task[1].env)
    /\ IsSome(task[1].inputs)
    /\ IsSome(task[1].outputs)
    /\ task[1].clean_env
    /\ TableKeys(item[1]) = {"cmd", "cwd"}

=============================================================================
